---------------------------- MODULE Spec2Model ----------------------------
(***************************************************************************)
(* Model of rtslam/robotAbstract.hpp: the Control class (a Gaussian with a *)
(* time step and continuous-time shadow values) and the RobotAbstract      *)
(* class (pose slice of a shared map, control, Jacobians, perturbation Q,  *)
(* sensor set, motion update).                                             *)
(*                                                                         *)
(* Conventions.  A vec is a sequence of integers, a mat / sym_mat is a     *)
(* sequence of rows; size() of a vec is Len, size1() of a mat is Len.  A   *)
(* default-constructed vec or sym_mat is << >> (size 0).  double values    *)
(* are modelled by integers, so products and sums are exact.               *)
(* JFR_ASSERT is modelled with contract checks enabled: a false predicate  *)
(* ends the call at that line and nothing after it is executed.            *)
(***************************************************************************)
EXTENDS Integers, Sequences, FiniteSets, TLC

\* ------------------------------------------------------------------ bounds
MaxSize == 2
MaxVal == 1
MaxDt == 2
MaxOps == 3
MaxSteps == 2
MaxOther == 2
MaxSensors == 2
MaxLinks == 2

\* ----------------------------------------------------------- linear algebra
RECURSIVE SumTo(_, _)
SumTo(f, n) == IF n = 0 THEN 0 ELSE f[n] + SumTo(f, n - 1)

Cols(A) == IF Len(A) = 0 THEN 0 ELSE Len(A[1])

ZeroVec(n) == [i \in 1..n |-> 0]

ZeroMat(r, c) == [i \in 1..r |-> [j \in 1..c |-> 0]]

IdMat(n) == [i \in 1..n |-> [j \in 1..n |-> IF i = j THEN 1 ELSE 0]]

VecScale(v, a) == [i \in 1..Len(v) |-> v[i] * a]

VecAdd(v, w) == [i \in 1..Len(v) |-> v[i] + w[i]]

MatScale(A, a) == [i \in 1..Len(A) |-> [j \in 1..Len(A[i]) |-> A[i][j] * a]]

MatAdd(A, B) == [i \in 1..Len(A) |-> [j \in 1..Len(A[i]) |-> A[i][j] + B[i][j]]]

Transpose(A) == [j \in 1..Cols(A) |-> [i \in 1..Len(A) |-> A[i][j]]]

MatMul(A, B) ==
  [i \in 1..Len(A) |->
    [j \in 1..Cols(B) |-> SumTo([k \in 1..Len(B) |-> A[i][k] * B[k][j]], Len(B))]]

MatVec(A, v) ==
  [i \in 1..Len(A) |-> SumTo([k \in 1..Len(v) |-> A[i][k] * v[k]], Len(v))]

\* jmath::ublasExtra::prod_JPJt: J * P * J'
prod_JPJt(P, J) == MatMul(MatMul(J, P), Transpose(J))

\* ------------------------------------------------------------ input values
Vecs(s) ==
  {[i \in 1..s |-> v] : v \in 0..MaxVal} \cup {[i \in 1..s |-> i]}

SymMats(s) ==
  {MatScale(IdMat(s), d) : d \in 0..MaxVal}
    \cup {[i \in 1..s |-> [j \in 1..s |-> IF i = j THEN 2 ELSE 1]]}

Dts == 1..MaxDt

ArgSizes == 0..MaxSize

ArgVecs == UNION {Vecs(s) : s \in ArgSizes}

ArgMats == UNION {SymMats(s) : s \in ArgSizes}

\* a Gaussian value: mean and covariance of one size
Gaussians ==
  UNION {{[x |-> v, P |-> M] : v \in {ZeroVec(s), [i \in 1..s |-> i]},
                               M \in {MatScale(IdMat(s), MaxVal),
                                      [i \in 1..s |-> [j \in 1..s |-> IF i = j THEN 2 ELSE 1]]}}
           : s \in 1..MaxSize}

\* The Control object under test with the record of the last call on it,
\* and the robot (with the map it is part of) with the record of the last
\* call on it.
VARIABLES ctl, ccall, cpre, cdt, cstored, cops,
          rob, rcall, rpre, linked, Q0, onlyMoves, steps

cvars == <<ctl, ccall, cpre, cdt, cstored, cops>>

rvars == <<rob, rcall, rpre, linked, Q0, onlyMoves, steps>>

vars == <<ctl, ccall, cpre, cdt, cstored, cops, rob, rcall, rpre, linked, Q0, onlyMoves, steps>>

\* ================================================================= Control
\* Control(const Gaussian & c, const double _dt): x_ct, P_ct default-constructed
NewControl(g, dt) == [x |-> g.x, P |-> g.P, dt |-> dt, x_ct |-> << >>, P_ct |-> << >>]

\* Gaussian::size()
size(c) == Len(c.x)

\* Gaussian::P(const sym_mat &): the covariance setter refuses another size
Gaussian_P_ok(c, M) == Len(M) = size(c)

\* Outcome of one call on a Control: the object afterwards and how the call ended
Ret(c, r) == [c |-> c, res |-> r]

set_P_continuous(c, _P_ct) ==
  IF Len(_P_ct) # size(c) THEN Ret(c, "SizeMismatch")
  ELSE Ret([c EXCEPT !.P_ct = _P_ct], "ok")

set_x_continuous(c, _x_ct) ==
  IF Len(_x_ct) # size(c) THEN Ret(c, "SizeMismatch")
  ELSE Ret([c EXCEPT !.x_ct = _x_ct], "ok")

\* variant: convert_P_from_continuous(double) that also stores _dt
convert_P_from_continuous_dt_setsDt(c, _dt) ==
  IF Len(c.P_ct) # size(c) THEN Ret(c, "UninitializedContinuousState")
  ELSE Ret([c EXCEPT !.P = MatScale(c.P_ct, _dt), !.dt = _dt], "ok")

\* variant: convert_P_from_continuous(double) scaling by dt squared
convert_P_from_continuous_dt_sqrt(c, _dt) ==
  IF Len(c.P_ct) # size(c) THEN Ret(c, "UninitializedContinuousState")
  ELSE Ret([c EXCEPT !.P = MatScale(c.P_ct, _dt * _dt)], "ok")

\* convert_P_from_continuous(double _dt)
convert_P_from_continuous_dt(c, _dt) ==
  IF Len(c.P_ct) # size(c) THEN Ret(c, "UninitializedContinuousState")
  ELSE Ret([c EXCEPT !.P = MatScale(c.P_ct, _dt)], "ok")

\* convert_P_from_continuous(sym_mat & _P_ct, double _dt)
convert_P_from_continuous_P(c, _P_ct, _dt) ==
  IF Len(_P_ct) # size(c) THEN Ret(c, "SizeMismatch")
  ELSE LET s == set_P_continuous(c, _P_ct)
       IN  Ret([s.c EXCEPT !.P = MatScale(s.c.P_ct, _dt)], "ok")

\* convert_from_continuous(double _dt): only x_ct is checked; the mean is
\* written before the covariance setter sees P_ct
convert_from_continuous_dt(c, _dt) ==
  IF Len(c.x_ct) # size(c) THEN Ret(c, "UninitializedContinuousState")
  ELSE LET c1 == [c EXCEPT !.x = VecScale(c.x_ct, _dt)]
       IN  IF ~Gaussian_P_ok(c1, MatScale(c1.P_ct, _dt))
           THEN Ret(c1, "SizeMismatch")
           ELSE Ret([c1 EXCEPT !.P = MatScale(c1.P_ct, _dt), !.dt = _dt], "ok")

\* convert_from_continuous(Gaussian & Ct, double _dt)
convert_from_continuous_G(c, Ct, _dt) ==
  IF Len(Ct.x) # size(c) THEN Ret(c, "SizeMismatch")
  ELSE LET s1 == set_P_continuous(c, Ct.P)
           s2 == set_x_continuous(s1.c, Ct.x)
       IN  convert_from_continuous_dt(s2.c, _dt)

\* One call on the Control object: the ghost variables record the call
\* (ccall), the object before it (cpre), the dt the last successful
\* convert_from_continuous asked for (cdt) and the continuous values the
\* caller stored last (cstored).
StoresP(op) ==
  op \in {"set_P_continuous", "convert_P_from_continuous_P", "convert_from_continuous_G"}

StoresX(op) == op \in {"set_x_continuous", "convert_from_continuous_G"}

Stored(op, arg, r) ==
  LET sizeOk == IF op = "convert_from_continuous_G"
                THEN Len(arg.x) = size(ctl) ELSE Len(arg) = size(ctl)
      M == IF op = "convert_from_continuous_G" THEN arg.P ELSE arg
      v == IF op = "convert_from_continuous_G" THEN arg.x ELSE arg
  IN  [hasP |-> cstored.hasP \/ (StoresP(op) /\ sizeOk),
       P |-> IF StoresP(op) /\ sizeOk THEN M ELSE cstored.P,
       hasX |-> cstored.hasX \/ (StoresX(op) /\ sizeOk),
       x |-> IF StoresX(op) /\ sizeOk THEN v ELSE cstored.x]

CDo(op, arg, dt, r) ==
  /\ cops < MaxOps
  /\ cops' = cops + 1
  /\ ctl' = r.c
  /\ cpre' = ctl
  /\ ccall' = [op |-> op, arg |-> arg, dt |-> dt, res |-> r.res]
  /\ cdt' = IF op \in {"convert_from_continuous_dt", "convert_from_continuous_G"}
               /\ r.res = "ok"
            THEN dt ELSE cdt
  /\ cstored' = Stored(op, arg, r)
  /\ UNCHANGED rvars

CInit ==
  /\ \E g \in Gaussians : \E d \in Dts : ctl = NewControl(g, d)
  /\ cpre = ctl
  /\ ccall = [op |-> "new", arg |-> << >>, dt |-> ctl.dt, res |-> "ok"]
  /\ cdt = ctl.dt
  /\ cstored = [hasP |-> FALSE, P |-> << >>, hasX |-> FALSE, x |-> << >>]
  /\ cops = 0
  /\ rob = [n |-> 0] /\ rpre = [n |-> 0] /\ rcall = [op |-> "none"]
  /\ linked = << >> /\ Q0 = << >> /\ onlyMoves = TRUE /\ steps = 0

SetPContinuous ==
  \E M \in ArgMats : CDo("set_P_continuous", M, 0, set_P_continuous(ctl, M))

SetXContinuous ==
  \E v \in ArgVecs : CDo("set_x_continuous", v, 0, set_x_continuous(ctl, v))

ConvertPDt ==
  \E d \in Dts :
    CDo("convert_P_from_continuous_dt", << >>, d, convert_P_from_continuous_dt(ctl, d))

ConvertPP ==
  \E M \in ArgMats : \E d \in Dts :
    CDo("convert_P_from_continuous_P", M, d, convert_P_from_continuous_P(ctl, M, d))

ConvertDt ==
  \E d \in Dts :
    CDo("convert_from_continuous_dt", << >>, d, convert_from_continuous_dt(ctl, d))

ConvertG ==
  \E g \in Gaussians : \E d \in Dts :
    CDo("convert_from_continuous_G", g, d, convert_from_continuous_G(ctl, g, d))

CNext ==
  \/ SetPContinuous
  \/ SetXContinuous
  \/ ConvertPDt
  \/ ConvertPP
  \/ ConvertDt
  \/ ConvertG

SpecControl == CInit /\ [][CNext]_vars

\* ------------------------------------------------------ claims on Control
Unchanged3 == ctl.x = cpre.x /\ ctl.P = cpre.P /\ ctl.dt = cpre.dt

\* what the caller had stored before the recorded call
HadP == Len(cpre.P_ct) = size(cpre)

HadX == Len(cpre.x_ct) = size(cpre)

\* C3 (as claimed): convert_from_continuous(dt) fails unless both the
\* continuous mean and the continuous covariance were stored, and every
\* failing call leaves the mean, the covariance and dt as they were.
C3_FailsCleanUnlessBoth ==
  ccall.op = "convert_from_continuous_dt" /\ ~(HadX /\ HadP)
    => ccall.res # "ok" /\ Unchanged3

C10_DtOnlyFromDiscretizeAll ==
  /\ ctl.dt = cdt
  /\ ccall.op \in {"set_x_continuous", "set_P_continuous",
                   "convert_P_from_continuous_dt", "convert_P_from_continuous_P"}
       => ctl.dt = cpre.dt /\ ctl.x = cpre.x

\* the covariance was scaled by a d that dt does not hold
C10_Witness ==
  /\ ccall.op = "convert_P_from_continuous_dt" /\ ccall.res = "ok"
  /\ ccall.dt # ctl.dt
  /\ ctl.P = MatScale(ctl.P_ct, ccall.dt)
  /\ ctl.P # cpre.P


\* ========================================================== RobotAbstract
\* The robot's slice of the map mean: state.x()
state_x(r) == SubSeq(r.mapx, 1, r.n)

\* A concrete motion model for the pure virtual move_func: a chain of
\* integrators driven by the control, xnew = x + dt * (S x + B u), with
\* S the upper shift and B lower-triangular ones.  It is evaluated on _x
\* and _u as passed; a control vector of another size than the model's
\* cannot be read.
ShiftMat(n) == [i \in 1..n |-> [j \in 1..n |-> IF j = i + 1 THEN 1 ELSE 0]]

DriveMat(n, m) == [i \in 1..n |-> [j \in 1..m |-> IF i >= j THEN 1 ELSE 0]]

move_func(n, m, _x, _u, _dt) ==
  IF Len(_u) # m \/ Len(_x) # n THEN [ok |-> FALSE]
  ELSE [ok |-> TRUE,
        xnew |-> VecAdd(_x, VecScale(VecAdd(MatVec(ShiftMat(n), _x),
                                            MatVec(DriveMat(n, m), _u)), _dt)),
        XNEW_x |-> MatAdd(IdMat(n), MatScale(ShiftMat(n), _dt)),
        XNEW_u |-> MatScale(DriveMat(n, m), _dt)]

\* variant: move_func() passing a unit time step instead of control.dt
move_func_members_unitDt(r) ==
  LET x == state_x(r)
      u == r.control.x
      f == move_func(r.n, r.m, x, u, 1)
  IN  IF ~f.ok THEN [ok |-> FALSE, r |-> r]
      ELSE [ok |-> TRUE,
            r |-> [r EXCEPT !.XNEW_x = f.XNEW_x, !.XNEW_control = f.XNEW_u]]

\* move_func(): copies state.x() and control.x() into locals, evaluates the
\* model with the local x as input and as output, and returns; XNEW_x and
\* XNEW_control are members passed by reference, the local x is dropped.
move_func_members(r) ==
  LET x == state_x(r)
      u == r.control.x
      f == move_func(r.n, r.m, x, u, r.control.dt)
  IN  IF ~f.ok THEN [ok |-> FALSE, r |-> r]
      ELSE [ok |-> TRUE,
            r |-> [r EXCEPT !.XNEW_x = f.XNEW_x, !.XNEW_control = f.XNEW_u]]

\* Outcome of one call on the robot: the robot (and map) afterwards, how
\* the call ended and how often the motion model was evaluated
RRet(r, res, evals) == [r |-> r, res |-> res, evals |-> evals]

\* computeStatePerturbation(): Q = XNEW_control * control.P() * XNEW_control'
computeStatePerturbation(r) ==
  IF Cols(r.XNEW_control) # Len(r.control.P) THEN RRet(r, "SizeMismatch", 0)
  ELSE RRet([r EXCEPT !.Q = prod_JPJt(r.control.P, r.XNEW_control)], "ok", 0)

\* The filter's prediction on the shared covariance: the robot's block is
\* F P_rr F' + Q, its cross blocks with the rest of the map are F P_ro and
\* the transpose, the rest is kept.
Block(P, rows, cols) == [i \in 1..Len(rows) |-> [j \in 1..Len(cols) |-> P[rows[i]][cols[j]]]]

Predict(P, F, Q, n) ==
  LET N == Len(P)
      rr == [i \in 1..n |-> i]
      oo == [i \in 1..(N - n) |-> n + i]
      Prr == MatAdd(prod_JPJt(Block(P, rr, rr), F), Q)
      Pro == MatMul(F, Block(P, rr, oo))
  IN  [i \in 1..N |-> [j \in 1..N |->
        IF i <= n /\ j <= n THEN Prr[i][j]
        ELSE IF i <= n THEN Pro[i][j - n]
        ELSE IF j <= n THEN Pro[j][i - n]
        ELSE P[i][j]]]

\* move(): evaluate the motion model through move_func(), refresh Q unless
\* constantPerturbation, predict the map covariance
move(r) ==
  LET f == move_func_members(r)
  IN  IF ~f.ok THEN RRet(r, "MotionModelFailure", 1)
      ELSE LET q == IF f.r.constantPerturbation THEN RRet(f.r, "ok", 0)
                    ELSE computeStatePerturbation(f.r)
           IN  IF q.res # "ok" THEN RRet(q.r, q.res, 1)
               ELSE RRet([q.r EXCEPT !.mapP = Predict(q.r.mapP, q.r.XNEW_x, q.r.Q, q.r.n)],
                         "ok", 1)

\* variant: set_control that recomputes Q from the new covariance
set_control_refreshQ(r, _control) ==
  [r EXCEPT !.control = _control,
            !.Q = IF Cols(r.XNEW_control) = Len(_control.P)
                  THEN prod_JPJt(_control.P, r.XNEW_control) ELSE r.Q]

\* set_control(const Control & _control)
set_control(r, _control) == [r EXCEPT !.control = _control]

\* variant: move(const Control &) that moves before it takes the control
move_control_after(r, _control) ==
  LET mv == move(r) IN RRet(set_control(mv.r, _control), mv.res, mv.evals)

\* move(const Control & _control)
move_control(r, _control) == move(set_control(r, _control))

\* variant: move(V &) without the size assertion
move_u_unchecked(r, _u) == move([r EXCEPT !.control.x = _u])

\* move(V & _u)
move_u(r, _u) ==
  IF Len(_u) # size(r.control) THEN RRet(r, "SizeMismatch", 0)
  ELSE move([r EXCEPT !.control.x = _u])

\* variant: an insertion that is lost
sensors_insert_none(S, s) == S

\* sensors_ptr_set_t: a set keyed by the sensor; inserting a member again
\* changes nothing and iteration goes in ascending key order
sensors_insert(S, s) == S \cup {s}

RECURSIVE sensors_iterate(_)
sensors_iterate(S) ==
  IF S = {} THEN << >>
  ELSE LET lo == CHOOSE a \in S : \A b \in S : a <= b
       IN  <<lo>> \o sensors_iterate(S \ {lo})

\* linkToSensor(sensor_ptr_t _senPtr)
linkToSensor(r, s) == [r EXCEPT !.sensors = sensors_insert(r.sensors, s)]

\* exploreSensors(): the hooks called, in order; the robot is left alone
exploreSensors(r) == [r |-> r, hooks |-> sensors_iterate(r.sensors)]

\* Controls a caller may hand over, of the robot's size or not
Controls ==
  UNION {{NewControl([x |-> [i \in 1..s |-> i], P |-> MatScale(IdMat(s), MaxVal)], d),
          NewControl([x |-> ZeroVec(s), P |-> [i \in 1..s |-> [j \in 1..s |-> IF i = j THEN 2 ELSE 1]]], d)}
           : s \in 1..MaxSize, d \in {1, MaxDt}}

\* One call on the robot: the ghost variables record the call (rcall), the
\* robot and map before it (rpre), the sensors in the order they were
\* linked (linked) and whether computeStatePerturbation was ever called
\* from outside move() (onlyMoves is FALSE then).
Record(op, arg, ret, hooks) ==
  /\ rob' = ret.r
  /\ rpre' = rob
  /\ rcall' = [op |-> op, arg |-> arg, res |-> ret.res, evals |-> ret.evals, hooks |-> hooks]
  /\ linked' = IF op = "linkToSensor" THEN Append(linked, arg) ELSE linked
  /\ onlyMoves' = (onlyMoves /\ op # "computeStatePerturbation")
  /\ UNCHANGED Q0
  /\ UNCHANGED cvars

RDo(op, arg, ret) ==
  /\ steps < MaxSteps
  /\ steps' = steps + 1
  /\ Record(op, arg, ret, << >>)

\* RobotAbstract(_map, _size_state, _size_control): control of
\* _size_control, Jacobians sized n x n and n x m; the map holds the robot's
\* slice first and MaxOther more scalars of other objects.  With
\* constantPerturbation the caller enters Q at setup.
NewRobot(n, m, flag, q) ==
  [n |-> n, m |-> m,
   mapx |-> [i \in 1..(n + MaxOther) |-> i - 1],
   mapP |-> [i \in 1..(n + MaxOther) |-> [j \in 1..(n + MaxOther) |-> IF i = j THEN 2 ELSE 1]],
   control |-> NewControl([x |-> ZeroVec(m), P |-> IdMat(m)], 1),
   XNEW_x |-> ZeroMat(n, n),
   XNEW_control |-> ZeroMat(n, m),
   Q |-> q,
   constantPerturbation |-> flag,
   sensors |-> {}]

SetupQs(n, flag) ==
  IF flag THEN {MatScale(IdMat(n), MaxVal), [i \in 1..n |-> [j \in 1..n |-> IF i = j THEN 2 ELSE 1]]}
  ELSE {ZeroMat(n, n)}

RInit ==
  /\ \E n \in 1..MaxSize : \E m \in 1..MaxSize : \E flag \in BOOLEAN :
       \E q \in SetupQs(n, flag) :
         /\ rob = NewRobot(n, m, flag, q)
         /\ Q0 = q
  /\ rpre = rob
  /\ rcall = [op |-> "new", arg |-> << >>, res |-> "ok", evals |-> 0, hooks |-> << >>]
  /\ linked = << >>
  /\ onlyMoves = TRUE
  /\ steps = 0
  /\ ctl = [dt |-> 0] /\ cpre = [dt |-> 0] /\ ccall = [op |-> "none"]
  /\ cdt = 0 /\ cstored = [hasP |-> FALSE] /\ cops = 0

SetControl ==
  \E c \in Controls : RDo("set_control", c, RRet(set_control(rob, c), "ok", 0))

Move == RDo("move", << >>, move(rob))

MoveControl ==
  \E c \in Controls : RDo("move_control", c, move_control(rob, c))

MoveU == \E u \in ArgVecs : RDo("move_u", u, move_u(rob, u))

ComputeStatePerturbation ==
  RDo("computeStatePerturbation", << >>, computeStatePerturbation(rob))

RNext ==
  \/ SetControl
  \/ Move
  \/ MoveControl
  \/ MoveU
  \/ ComputeStatePerturbation

Spec == RInit /\ [][RNext]_vars

\* --------------------------------------------------- the robot's sensors
LinkToSensor ==
  /\ Len(linked) < MaxLinks
  /\ \E s \in 1..MaxSensors :
       Record("linkToSensor", s, RRet(linkToSensor(rob, s), "ok", 0), << >>)
  /\ UNCHANGED steps

ExploreSensors ==
  LET e == exploreSensors(rob)
  IN  /\ Record("exploreSensors", << >>, RRet(e.r, "ok", 0), e.hooks)
      /\ UNCHANGED steps

MoveBetween == RDo("move", << >>, move(rob))

SNext ==
  \/ LinkToSensor
  \/ ExploreSensors
  \/ MoveBetween

SpecSensors == RInit /\ [][SNext]_vars

\* ------------------------------------------------------ claims on the robot
IsMove == rcall.op \in {"move", "move_control", "move_u"}

MoveOk == IsMove /\ rcall.res = "ok"

\* the control in force when the recorded call reached move()
UsedControl ==
  IF rcall.op = "move_control" THEN rcall.arg
  ELSE IF rcall.op = "move_u" THEN [rpre.control EXCEPT !.x = rcall.arg]
  ELSE rpre.control

\* what the motion model gives on the pose, control mean and dt held before
Expected == move_func(rob.n, rob.m, state_x(rpre), UsedControl.x, UsedControl.dt)

MapUnchanged == rob.mapx = rpre.mapx /\ rob.mapP = rpre.mapP

\* element (i, j) of J * P * J'
JPJtAt(J, P, i, j) ==
  SumTo([k \in 1..Len(P) |->
          SumTo([l \in 1..Len(P) |-> J[i][k] * P[k][l] * J[j][l]], Len(P))], Len(P))

QIsFresh ==
  /\ Len(rob.Q) = rob.n
  /\ Cols(rob.XNEW_control) = Len(rob.control.P)
  /\ \A i \in 1..rob.n : \A j \in 1..rob.n :
       rob.Q[i][j] = JPJtAt(rob.XNEW_control, rob.control.P, i, j)

\* C1: move(u) with a u whose size is not control.size() fails with
\* SizeMismatch before anything is written: the map's mean and covariance
\* and the control's mean, covariance and dt are as before the call and the
\* motion model was not evaluated.
C1_MoveU_RejectsBeforeWriting ==
  rcall.op = "move_u" /\ Len(rcall.arg) # size(rpre.control) =>
    /\ rcall.res = "SizeMismatch"
    /\ MapUnchanged
    /\ rob.control = rpre.control
    /\ rob.XNEW_x = rpre.XNEW_x /\ rob.XNEW_control = rpre.XNEW_control /\ rob.Q = rpre.Q
    /\ rcall.evals = 0

\* a wrong-sized u refused after an earlier move had changed the map
C1_Witness ==
  /\ rcall.op = "move_u" /\ Len(rcall.arg) # size(rpre.control)
  /\ rcall.res = "SizeMismatch"
  /\ rpre.mapP # NewRobot(rob.n, rob.m, rob.constantPerturbation, Q0).mapP

\* C2 (as claimed): move(control) with a Control of another size than the
\* robot's control size fails with SizeMismatch and leaves the control and
\* the map as they were, and no reachable state has a robot control whose
\* size differs from the control size fixed at construction.
C2_ControlSizeNeverChanges ==
  /\ size(rob.control) = rob.m
  /\ rcall.op = "move_control" /\ size(rcall.arg) # rob.m =>
       rcall.res = "SizeMismatch" /\ rob.control = rpre.control /\ MapUnchanged

\* C4 (as claimed): whenever constantPerturbation is false, Q equals
\* XNEW_control * control.P * XNEW_control' of the current Jacobian and the
\* current control covariance (where that product is defined).
C4_QAlwaysFresh ==
  ~rob.constantPerturbation /\ Cols(rob.XNEW_control) = Len(rob.control.P) => QIsFresh

\* C4 (amended): with constantPerturbation false, Q equals XNEW_control *
\* control.P * XNEW_control' of the current Jacobian and control covariance
\* in every state a successful move(), move(control), move(u) or
\* computeStatePerturbation() has just produced.
C4_QFreshAfterMove ==
  /\ ~rob.constantPerturbation
  /\ MoveOk \/ (rcall.op = "computeStatePerturbation" /\ rcall.res = "ok")
  => QIsFresh

\* a move whose refreshed Q is not zero and differs from the Q before
C4_Witness ==
  /\ ~rob.constantPerturbation /\ MoveOk /\ rcall.op = "move_control"
  /\ rob.Q # rpre.Q /\ rpre.Q # ZeroMat(rob.n, rob.n)
  /\ rob.control.P # rpre.control.P

\* C5: with constantPerturbation true and Q entered as Q0 at setup, Q is Q0
\* after any number of move(), move(control) and move(u) calls whatever
\* XNEW_control and control.P become; a successful move refreshes Q exactly
\* when constantPerturbation is false.
C5_ConstantPerturbationKeepsQ ==
  /\ rob.constantPerturbation /\ onlyMoves => rob.Q = Q0
  /\ rob.constantPerturbation /\ IsMove => rob.Q = rpre.Q
  /\ ~rob.constantPerturbation /\ MoveOk => QIsFresh

\* a second move under constantPerturbation, with another Jacobian and
\* another control covariance than the first, where a refresh would have
\* given another Q
C5_Witness ==
  /\ rob.constantPerturbation /\ MoveOk /\ onlyMoves
  /\ rpre.XNEW_control # ZeroMat(rob.n, rob.m)
  /\ rob.XNEW_control # rpre.XNEW_control
  /\ rob.control.P # rpre.control.P
  /\ ~QIsFresh

\* C6: a successful move() changes the map covariance only in the robot's
\* blocks: the robot's own block becomes XNEW_x P_rr XNEW_x' + Q, each
\* cross block with the rest of the map becomes XNEW_x P_ro with its
\* transpose kept equal, and the blocks among the other objects and the
\* other objects' means are as before; with XNEW_x = I and Q = 0 the whole
\* covariance is unchanged.  XNEW_x is the model's Jacobian on the pose,
\* control mean and dt held before.
C6_CovariancePropagation ==
  MoveOk =>
    LET n == rob.n
        N == Len(rob.mapP)
        F == rob.XNEW_x
        P == rpre.mapP
    IN  /\ F = Expected.XNEW_x
        /\ Len(rpre.mapP) = N
        /\ \A i \in 1..n : \A j \in 1..n :
             rob.mapP[i][j] = JPJtAt(F, [a \in 1..n |-> SubSeq(P[a], 1, n)], i, j) + rob.Q[i][j]
        /\ \A i \in 1..n : \A j \in (n + 1)..N :
             /\ rob.mapP[i][j] = SumTo([k \in 1..n |-> F[i][k] * P[k][j]], n)
             /\ rob.mapP[j][i] = rob.mapP[i][j]
        /\ \A i \in (n + 1)..N : \A j \in (n + 1)..N : rob.mapP[i][j] = P[i][j]
        /\ \A i \in (n + 1)..N : rob.mapx[i] = rpre.mapx[i]
        /\ (F = IdMat(n) /\ rob.Q = ZeroMat(n, n) => rob.mapP = P)

\* a move with a Jacobian other than I that changed a cross block
C6_Witness ==
  /\ MoveOk /\ rob.n >= 2
  /\ rob.XNEW_x # IdMat(rob.n)
  /\ rob.mapP[1][rob.n + 1] # rpre.mapP[1][rob.n + 1]
  /\ rob.mapP[1][1] # rpre.mapP[1][1]
  /\ rob.mapP[rob.n + 1][rob.n + 1] = rpre.mapP[rob.n + 1][rob.n + 1]

\* C7 (as claimed): a successful move() evaluates the motion model once on
\* the pose mean, control mean and dt held before, and afterwards the
\* robot's pose mean in the map is the xnew that evaluation gave.
C7_PoseMeanCommitted ==
  MoveOk => rcall.evals = 1 /\ state_x(rob) = Expected.xnew

\* ---------------------------------------------------- claims on the sensors
RECURSIVE FirstOcc(_)
FirstOcc(q) ==
  IF q = << >> THEN << >>
  ELSE LET h == FirstOcc(SubSeq(q, 1, Len(q) - 1))
           e == q[Len(q)]
       IN  IF \E i \in 1..Len(h) : h[i] = e THEN h ELSE Append(h, e)

=============================================================================
